---- MODULE Spec2Model ----
(***************************************************************************)
(* Model of WitheringMixin (src/witheringMixin.js): generation stamps on   *)
(* the nodes of a give-tree, the age comparator, the eligibility rule,     *)
(* the withering sweep and the rejuvenation hooks.                         *)
(***************************************************************************)
EXTENDS Integers, Sequences, FiniteSets, TLC

\* Bounds of the model.
MaxGeneration == 4      \* tree.constructor.MAX_GENERATION (the clock modulus)
MaxLifeSpan == 1        \* tree.lifeSpan ranges over 0 .. MaxLifeSpan

\* Values of a slot of `values` that are not withering nodes, and the
\* value of an absent `_lastUpdateGen`.
NullSlot == 0           \* `null`, the empty sentinel
DataSlot == -1          \* a data entry: no `wither`, no `_lastUpdateGen`
Unset == -1             \* `_lastUpdateGen` is undefined

\* The withering nodes a tree is built from; node 1 is the root.
Nodes == 1 .. 4
Root == 1
Gens == 0 .. (MaxGeneration - 1)

VARIABLES
  currGen,            \* tree._currGen
  lifeSpan,           \* tree.lifeSpan (0: absent or zero)
  neighboringLinks,   \* tree.neighboringLinks
  nodes,              \* the nodes that are part of the tree
  gen,                \* gen[n]: node n's _lastUpdateGen, or Unset
  values,             \* values[n]: node n's child slots, in order
  last,               \* the call that produced this state
  log,                \* what the last wither() did, in order
  elapsed             \* elapsed[n]: clock ticks since the timed rejuvenate()
                      \* that wrote node n's stamp, or NotTimed

vars == <<currGen, lifeSpan, neighboringLinks, nodes, gen, values, last, log, elapsed>>

----------------------------------------------------------------------------
\* Host node primitives (GiveNonLeafNode), as the specification states them.

IsNode(slot) == slot \in Nodes

\* this.childNum
ChildNum(vals) == Len(vals)

\* this.firstChild (NullSlot when there is none)
FirstChild(vals) == IF Len(vals) = 0 THEN NullSlot ELSE vals[1]

\* this.clear(null): the content becomes the empty sentinel
Clear(vals) == <<NullSlot>>

\* this.remove(child, true, null): the slot at `index` (1-based) is detached
\* and the later slots shift left
Remove(vals, index) ==
  [i \in 1 .. (Len(vals) - 1) |-> IF i < index THEN vals[i] ELSE vals[i + 1]]

\* the nodes attached below (and including) n
RECURSIVE Subtree(_, _)
Subtree(n, v) ==
  {n} \cup UNION {Subtree(v[n][i], v) : i \in {j \in 1 .. Len(v[n]) : IsNode(v[n][j])}}

----------------------------------------------------------------------------
\* JavaScript relational operators on a stamp that may be undefined:
\* every comparison with undefined is false.

Num(x) == x # Unset
JsGt(x, y) == Num(x) /\ Num(y) /\ x > y
JsLe(x, y) == Num(x) /\ Num(y) /\ x <= y
\* truthiness of a stamp: undefined and 0 are falsy
Truthy(x) == Num(x) /\ x # 0

\* this.tree && this.tree.lifeSpan
Tracking(ls) == ls # 0

----------------------------------------------------------------------------
\* constructor: `propGen` is props._currGen (Unset when not supplied)
Constructor(propGen, ls, c) ==
  IF Truthy(propGen) \/ Tracking(ls)
  THEN (IF Truthy(propGen) THEN propGen ELSE c)
  ELSE Unset

\* line 59 reads props._currGen: a TypeError when the guard of line 49 let
\* the constructor in through tree.lifeSpan and no props object was passed
ConstructorThrows(hasProps, ls) == ~hasProps /\ Tracking(ls)

\* _genOlderThan(generationToComp) on a node stamped `own`
GenOlderThanNoSide(ls, c, own, other) ==
  Tracking(ls) /\ JsGt(other, own)

GenOlderThanUntracked(ls, c, own, other) ==
  JsGt(other, own) /\ (JsLe(other, c) = JsLe(own, c))

GenOlderThan(ls, c, own, other) ==
  /\ Tracking(ls)
  /\ JsGt(other, own)
  /\ (JsLe(other, c) = JsLe(own, c))

\* the age computed by the _shouldWither getter, compared with lifeSpan
AgeOf(c, stamp) ==
  IF c >= stamp THEN c - stamp ELSE c + (MaxGeneration - stamp)

TooOldInclusive(ls, c, stamp) == Num(stamp) /\ AgeOf(c, stamp) >= ls

TooOld(ls, c, stamp) == Num(stamp) /\ AgeOf(c, stamp) > ls

\* get _shouldWither
RECURSIVE ShouldWither(_, _, _, _, _)
ShouldWitherUnprotected(n, ls, c, g, v) ==
  IF ~Tracking(ls) THEN FALSE ELSE TooOld(ls, c, g[n])

ShouldWitherOneLevel(n, ls, c, g, v) ==
  IF ~Tracking(ls) THEN FALSE
  ELSE LET fc == FirstChild(v[n])
       IN  /\ ~(IsNode(fc) /\ ~TooOld(ls, c, g[fc]))
           /\ TooOld(ls, c, g[n])

ShouldWither(n, ls, c, g, v) ==
  IF ~Tracking(ls) THEN FALSE
  ELSE LET fc == FirstChild(v[n])
       IN  /\ ~(IsNode(fc) /\ ShouldWither(fc, ls, c, g, v) = FALSE)
           /\ TooOld(ls, c, g[n])

----------------------------------------------------------------------------
\* wither(): one entry of `log` per step of the sweep.
\*   ev    "enter" wither() starts on `node`; "check" the self-eviction
\*         check of `node` (flag: _shouldWither); "clear" clear(null);
\*         "call" wither() is called on `child`; "remove" remove(child);
\*         "return" wither() on `node` returns `flag`
\*   own   the stamp of `node`, vals its slots, kids the stamps of the
\*         nodes among its slots, all at the time of the entry
KidStamps(vals, g) ==
  LET idx == {i \in 1 .. Len(vals) : IsNode(vals[i])}
  IN  {g[vals[i]] : i \in idx}

Event(ev, n, child, flag, g, v) ==
  [ev |-> ev, node |-> n, child |-> child, flag |-> flag,
   own |-> g[n], vals |-> v[n], kids |-> KidStamps(v[n], g)]

\* lines 104-110: values.forEach(...) adopting the stamps of the children
\* that _genOlderThan accepts, in slot order
RECURSIVE RepairFrom(_, _, _, _, _, _)
RepairFrom(own, vals, i, ls, c, g) ==
  IF i > Len(vals) THEN own
  ELSE LET value == vals[i]
           adopt == /\ IsNode(value)
                    /\ Num(g[value])
                    /\ GenOlderThan(ls, c, own, g[value])
       IN  RepairFrom(IF adopt THEN g[value] ELSE own, vals, i + 1, ls, c, g)

SkewRepair(n, nl, ls, c, g, v) ==
  IF nl THEN RepairFrom(g[n], v[n], 1, ls, c, g) ELSE g[n]

\* line 125: `index--` followed by the loop's `index++`
NextIndexNoDecrement(index) == index + 1

NextIndexRestart(index) == 1

NextIndexAfterRemove(index) == index

\* line 128: this.childNum <= 1 && this.values[0] === null
CollapsedIgnoringSlot(vals) == ChildNum(vals) <= 1

Collapsed(vals) ==
  ChildNum(vals) <= 1 /\ Len(vals) >= 1 /\ vals[1] = NullSlot

\* st = [gen, values, log, ret]
RECURSIVE Wither(_, _, _, _, _)
RECURSIVE SweepChildren(_, _, _, _, _, _)

\* lines 121-127: the loop over the child slots, `index` 1-based
SweepChildren(n, index, nl, ls, c, st) ==
  IF index > ChildNum(st.values[n]) THEN st
  ELSE LET child == st.values[n][index]
       IN  IF IsNode(child)
           THEN LET called == [st EXCEPT !.log =
                      Append(@, Event("call", n, child, FALSE, st.gen, st.values))]
                    r == Wither(child, nl, ls, c, called)
                IN  IF r.ret
                    THEN LET v2 == [r.values EXCEPT ![n] = Remove(@, index)]
                             removed == [r EXCEPT
                               !.values = v2,
                               !.log = Append(@, Event("remove", n, child, TRUE, r.gen, v2))]
                         IN  SweepChildren(n, NextIndexAfterRemove(index), nl, ls, c, removed)
                    ELSE SweepChildren(n, index + 1, nl, ls, c, r)
           ELSE SweepChildren(n, index + 1, nl, ls, c, st)

WitherSweepingEvicted(n, nl, ls, c, st) ==
  LET g1 == [st.gen EXCEPT ![n] = SkewRepair(n, nl, ls, c, st.gen, st.values)]
      sw == ShouldWither(n, ls, c, g1, st.values)
      entered == Append(st.log, Event("enter", n, NullSlot, FALSE, st.gen, st.values))
      checked == Append(entered, Event("check", n, NullSlot, sw, g1, st.values))
      swept == SweepChildren(n, 1, nl, ls, c,
                 [gen |-> g1, values |-> st.values, ret |-> FALSE, log |-> checked])
      res == Collapsed(swept.values[n])
  IN  IF sw
      THEN LET v1 == [swept.values EXCEPT ![n] = Clear(@)]
           IN  [gen |-> swept.gen, values |-> v1, ret |-> TRUE,
                log |-> swept.log \o <<Event("clear", n, NullSlot, TRUE, swept.gen, v1),
                                       Event("return", n, NullSlot, TRUE, swept.gen, v1)>>]
      ELSE [swept EXCEPT
             !.ret = res,
             !.log = Append(@, Event("return", n, NullSlot, res, swept.gen, swept.values))]

\* lines 99-129
Wither(n, nl, ls, c, st) ==
  LET g1 == [st.gen EXCEPT ![n] = SkewRepair(n, nl, ls, c, st.gen, st.values)]
      sw == ShouldWither(n, ls, c, g1, st.values)
      entered == Append(st.log, Event("enter", n, NullSlot, FALSE, st.gen, st.values))
      checked == Append(entered, Event("check", n, NullSlot, sw, g1, st.values))
  IN  IF sw
      THEN LET v1 == [st.values EXCEPT ![n] = Clear(@)]
           IN  [gen |-> g1, values |-> v1, ret |-> TRUE,
                log |-> checked \o <<Event("clear", n, NullSlot, TRUE, g1, v1),
                                     Event("return", n, NullSlot, TRUE, g1, v1)>>]
      ELSE LET swept == SweepChildren(n, 1, nl, ls, c,
                          [gen |-> g1, values |-> st.values, ret |-> FALSE, log |-> checked])
               res == Collapsed(swept.values[n])
           IN  [swept EXCEPT
                 !.ret = res,
                 !.log = Append(@, Event("return", n, NullSlot, res, swept.gen, swept.values))]

----------------------------------------------------------------------------
\* The trees the model starts from, built from the nodes 1 .. size: every
\* node but the root hangs either under the root or under the node built
\* just before it; a node's children are in its slots in the order they
\* were built; a node without children holds one data entry; node
\* `emptyFirst` (if any) has an empty first slot.
Shapes(size) ==
  {p \in [2 .. size -> 1 .. size] :
     \A n \in 2 .. size : p[n] < n /\ (p[n] = Root \/ p[n] = n - 1)}

RECURSIVE KidsFrom(_, _, _, _)
KidsFrom(p, size, n, k) ==
  IF k > size THEN <<>>
  ELSE (IF p[k] = n THEN <<k>> ELSE <<>>) \o KidsFrom(p, size, n, k + 1)

InitialValues(p, size, emptyFirst) ==
  [n \in Nodes |->
     IF n > size THEN <<>>
     ELSE LET kids == KidsFrom(p, size, n, 2)
          IN  IF n = emptyFirst THEN <<NullSlot>> \o kids
              ELSE IF kids = <<>> THEN <<DataSlot>> ELSE kids]

\* `last`: the call that has just returned to the host tree (NoCall when
\* the host is between calls): its name, the node it was made on, its
\* argument (the node at the end of a hook's path, the node given to
\* mergeAfter, the generation given to _genOlderThan), a flag (what wither,
\* the host's mergeAfter and the two getters returned; props.doNotWither
\* of a hook), the stamp the node had before the call, and what a hook
\* returned to its caller ("undefined" for the other calls).
Call(op, n, arg, flag, old, ret) ==
  [op |-> op, node |-> n, arg |-> arg, flag |-> flag, old |-> old, ret |-> ret]

NoCall == Call("none", 0, 0, FALSE, Unset, "undefined")

\* no tick count is kept for the node
NotTimed == -1

\* A tree of `size` nodes, each built by the constructor at the current
\* clock value; the nodes of `withProps` are given props._currGen = supplied,
\* a generation the clock has been at since it last wrapped.
Built(size) ==
  /\ currGen \in Gens
  /\ lifeSpan \in 0 .. MaxLifeSpan
  /\ neighboringLinks \in BOOLEAN
  /\ nodes = 1 .. size
  /\ \E p \in Shapes(size), emptyFirst \in {0, 2} :
       values = InitialValues(p, size, emptyFirst)
  /\ \E supplied \in 0 .. currGen, withProps \in SUBSET (1 .. size) :
       gen = [n \in Nodes |->
                IF n > size THEN Unset
                ELSE Constructor(IF n \in withProps THEN supplied ELSE Unset,
                                 lifeSpan, currGen)]
  /\ last = NoCall
  /\ log = <<>>
  /\ elapsed = [n \in Nodes |-> NotTimed]

Init == Built(3)

----------------------------------------------------------------------------
\* The host tree advances its clock, wrapping at MAX_GENERATION.
Tick ==
  /\ last = NoCall
  /\ currGen' = (currGen + 1) % MaxGeneration
  /\ UNCHANGED <<lifeSpan, neighboringLinks, nodes, gen, values, last, log, elapsed>>

\* rejuvenate(), lines 152-156
RejuvenateKeep(ls, c, stamp) == stamp

RejuvenatedUntracked(ls, c, stamp) == c

Rejuvenated(ls, c, stamp) == IF Tracking(ls) THEN c ELSE stamp

Rejuvenate(n) ==
  /\ last = NoCall
  /\ n \in nodes
  /\ gen' = [gen EXCEPT ![n] = Rejuvenated(lifeSpan, currGen, @)]
  /\ last' = Call("rejuvenate", n, 0, FALSE, gen[n], "undefined")
  /\ UNCHANGED <<currGen, lifeSpan, neighboringLinks, nodes, values, log, elapsed>>

\* The host's traverse()/getUncachedRange() walks down from the node it is
\* called on to one of its descendants, calling the same method with the
\* same props on every node of that path.
NodeSlots(vals) == {vals[i] : i \in {j \in 1 .. Len(vals) : IsNode(vals[j])}}

RECURSIVE PathNodes(_, _, _)
PathNodes(from, to, v) ==
  IF from = to THEN {from}
  ELSE LET via == {k \in NodeSlots(v[from]) : to \in Subtree(k, v)}
       IN  {from} \cup UNION {PathNodes(k, to, v) : k \in via}

\* lines 163-165 and 174-176: rejuvenate unless props.doNotWither
HookStampIgnoringFlag(doNotWither, ls, c, stamp) == Rejuvenated(ls, c, stamp)

HookStamp(doNotWither, ls, c, stamp) ==
  IF ~doNotWither THEN Rejuvenated(ls, c, stamp) ELSE stamp

\* What the host's own traverse()/getUncachedRange() hands back: "result",
\* or "undefined" when the base class has no such method (lines 160, 171).
HostResults == {"undefined", "result"}

\* lines 159-162 and 166: `result` is returned as the host gave it
HookReturn(hostResult) == hostResult

HookTargetOnly(op, from, to, doNotWither, hostResult) ==
  /\ last = NoCall
  /\ from \in nodes
  /\ to \in Subtree(from, values)
  /\ gen' = [gen EXCEPT ![to] = HookStamp(doNotWither, lifeSpan, currGen, @)]
  /\ last' = Call(op, from, to, doNotWither, gen[from], HookReturn(hostResult))
  /\ UNCHANGED <<currGen, lifeSpan, neighboringLinks, nodes, values, log, elapsed>>

Hook(op, from, to, doNotWither, hostResult) ==
  /\ last = NoCall
  /\ from \in nodes
  /\ to \in Subtree(from, values)
  /\ LET path == PathNodes(from, to, values)
     IN  gen' = [n \in Nodes |->
                   IF n \in path
                   THEN HookStamp(doNotWither, lifeSpan, currGen, gen[n]) ELSE gen[n]]
  /\ last' = Call(op, from, to, doNotWither, gen[from], HookReturn(hostResult))
  /\ UNCHANGED <<currGen, lifeSpan, neighboringLinks, nodes, values, log, elapsed>>

\* traverse(), lines 158-167
Traverse(from, to, doNotWither, hostResult) ==
  Hook("traverse", from, to, doNotWither, hostResult)

\* getUncachedRange(), lines 169-178
GetUncachedRange(from, to, doNotWither, hostResult) ==
  Hook("getUncachedRange", from, to, doNotWither, hostResult)

\* mergeAfter(node), lines 63-73; `result` is what the host's mergeAfter
\* returns; `other` is a node or NullSlot (no node given)
NodeGen(own, otherStamp) == IF Truthy(otherStamp) THEN otherStamp ELSE own

MergedStampAlways(ls, c, own, otherStamp, result) ==
  IF result THEN NodeGen(own, otherStamp) ELSE own

MergedStamp(ls, c, own, otherStamp, result) ==
  IF result /\ GenOlderThan(ls, c, own, NodeGen(own, otherStamp))
  THEN NodeGen(own, otherStamp) ELSE own

StampOf(slot, g) == IF IsNode(slot) THEN g[slot] ELSE Unset

MergeAfter(n, other, result) ==
  /\ last = NoCall
  /\ n \in nodes
  /\ other \in nodes \cup {NullSlot}
  /\ other # n
  /\ gen' = [gen EXCEPT ![n] =
               MergedStamp(lifeSpan, currGen, @, StampOf(other, gen), result)]
  /\ last' = Call("mergeAfter", n, other, result, gen[n], "undefined")
  /\ UNCHANGED <<currGen, lifeSpan, neighboringLinks, nodes, values, log, elapsed>>

\* The host tree sweeps: root.wither(). The nodes the sweep detached are
\* no longer part of the tree.
WitherRoot ==
  /\ last = NoCall
  /\ \E r \in {Wither(Root, neighboringLinks, lifeSpan, currGen,
                      [gen |-> gen, values |-> values, ret |-> FALSE, log |-> <<>>])} :
       \E left \in {Subtree(Root, r.values)} :
         /\ nodes' = left
         /\ gen' = [n \in Nodes |-> IF n \in left THEN r.gen[n] ELSE Unset]
         /\ values' = [n \in Nodes |-> IF n \in left THEN r.values[n] ELSE <<>>]
         /\ log' = r.log
         /\ last' = Call("wither", Root, 0, r.ret, gen[Root], "undefined")
  /\ UNCHANGED <<currGen, lifeSpan, neighboringLinks>>
  /\ elapsed' = [n \in Nodes |->
                   IF n \in nodes' /\ gen'[n] = gen[n] THEN elapsed[n] ELSE NotTimed]

\* A read of node._genOlderThan(generationToComp)
GenOlderThanCall(n, generationToComp) ==
  /\ last = NoCall
  /\ n \in nodes
  /\ last' = Call("_genOlderThan", n, generationToComp,
                  GenOlderThan(lifeSpan, currGen, gen[n], generationToComp), gen[n],
                  "undefined")
  /\ UNCHANGED <<currGen, lifeSpan, neighboringLinks, nodes, gen, values, log, elapsed>>

\* A read of node._shouldWither
ShouldWitherGet(n) ==
  /\ last = NoCall
  /\ n \in nodes
  /\ last' = Call("_shouldWither", n, 0,
                  ShouldWither(n, lifeSpan, currGen, gen, values), gen[n], "undefined")
  /\ UNCHANGED <<currGen, lifeSpan, neighboringLinks, nodes, gen, values, log, elapsed>>

\* The call returns to the host tree, which goes on to its next call.
Return ==
  /\ last # NoCall
  /\ last' = NoCall
  /\ log' = <<>>
  /\ UNCHANGED <<currGen, lifeSpan, neighboringLinks, nodes, gen, values, elapsed>>

Next ==
  \/ Tick
  \/ \E n \in Nodes : Rejuvenate(n)
  \/ \E from \in Nodes, to \in Nodes, doNotWither \in BOOLEAN, hostResult \in HostResults :
       Traverse(from, to, doNotWither, hostResult)
  \/ \E from \in Nodes, to \in Nodes, doNotWither \in BOOLEAN, hostResult \in HostResults :
       GetUncachedRange(from, to, doNotWither, hostResult)
  \/ \E n \in Nodes, other \in Nodes \cup {NullSlot}, result \in BOOLEAN :
       MergeAfter(n, other, result)
  \/ WitherRoot
  \/ \E n \in Nodes, generationToComp \in Gens : GenOlderThanCall(n, generationToComp)
  \/ \E n \in Nodes : ShouldWitherGet(n)
  \/ Return

Spec == Init /\ [][Next]_vars

\* The sweep on the larger trees (up to three children under one node),
\* with the accesses that make their stamps differ.
InitSweep == Built(4)

NextSweep ==
  \/ Tick
  \/ \E n \in Nodes : Rejuvenate(n)
  \/ WitherRoot
  \/ Return

SpecSweep == InitSweep /\ [][NextSweep]_vars

\* Timing: rejuvenate() calls (lines 152-156), clock ticks counted per node
\* since its rejuvenate(), and sweeps; no other access.
TickTimed ==
  /\ last = NoCall
  /\ currGen' = (currGen + 1) % MaxGeneration
  /\ elapsed' = [n \in Nodes |->
                   IF elapsed[n] \in 0 .. (MaxGeneration - 2)
                   THEN elapsed[n] + 1 ELSE NotTimed]
  /\ UNCHANGED <<lifeSpan, neighboringLinks, nodes, gen, values, last, log>>

RejuvenateTimed(n) ==
  /\ last = NoCall
  /\ n \in nodes
  /\ gen' = [gen EXCEPT ![n] = Rejuvenated(lifeSpan, currGen, @)]
  /\ elapsed' = [elapsed EXCEPT ![n] = 0]
  /\ last' = Call("rejuvenate", n, 0, FALSE, gen[n], "undefined")
  /\ UNCHANGED <<currGen, lifeSpan, neighboringLinks, nodes, values, log>>

InitTiming == Built(3)

NextTiming ==
  \/ TickTimed
  \/ \E n \in Nodes : RejuvenateTimed(n)
  \/ WitherRoot
  \/ Return

SpecTiming == InitTiming /\ [][NextTiming]_vars

\* Lateral access: a tree with neighbor links, every node freshly built in
\* generation 0; traverse() may start at any node (over a neighbor link it
\* starts below the root, and the ancestors are not rejuvenated).
InitLateral ==
  /\ Built(4)
  /\ currGen = 0
  /\ Tracking(lifeSpan)
  /\ neighboringLinks
  /\ \A n \in nodes : gen[n] = currGen

NextLateral ==
  \/ Tick
  \/ \E from \in Nodes, to \in Nodes, hostResult \in HostResults :
       Traverse(from, to, FALSE, hostResult)
  \/ WitherRoot
  \/ Return

SpecLateral == InitLateral /\ [][NextLateral]_vars

\* Parent-mediated access: no neighbor links, every node freshly built in
\* the current generation; the hooks are entered at the root, without
\* props.doNotWither; the clock stops before it has gone the full circle
\* back to the stamp of a node.
InitMediated ==
  /\ Built(4)
  /\ Tracking(lifeSpan)
  /\ ~neighboringLinks
  /\ \A n \in nodes : gen[n] = currGen

TickWithinCycle ==
  /\ \A n \in nodes : gen[n] # (currGen + 1) % MaxGeneration
  /\ Tick

NextMediated ==
  \/ TickWithinCycle
  \/ \E to \in Nodes, hostResult \in HostResults : Traverse(Root, to, FALSE, hostResult)
  \/ \E to \in Nodes, hostResult \in HostResults :
       GetUncachedRange(Root, to, FALSE, hostResult)
  \/ WitherRoot
  \/ Return

SpecMediated == InitMediated /\ [][NextMediated]_vars

\* Construction of a further node while the tree lives, lines 47-61:
\* `new Node()` (hasProps false), `new Node({})` (propGen Unset) or
\* `new Node({_currGen: propGen})`.  The call record holds props._currGen
\* as `arg`, whether a props object was passed as `flag`, the stamp the new
\* node ends up with as `old`, and "TypeError" as `ret` when the
\* constructor threw.
Construct(hasProps, propGen) ==
  /\ last = NoCall
  /\ ~hasProps => propGen = Unset
  /\ last' = IF ConstructorThrows(hasProps, lifeSpan)
             THEN Call("constructor", 0, propGen, hasProps, Unset, "TypeError")
             ELSE Call("constructor", 0, propGen, hasProps,
                       Constructor(propGen, lifeSpan, currGen), "undefined")
  /\ UNCHANGED <<currGen, lifeSpan, neighboringLinks, nodes, gen, values, log, elapsed>>

InitConstruct == Built(3)

NextConstruct ==
  \/ Tick
  \/ \E hasProps \in BOOLEAN, propGen \in Gens \cup {Unset} : Construct(hasProps, propGen)
  \/ Return

SpecConstruct == InitConstruct /\ [][NextConstruct]_vars

----------------------------------------------------------------------------
\* Reference notions the claims are stated with.

\* the age of a stamp in the circular ordering of the clock
CircAge(c, stamp) == (c - stamp + MaxGeneration) % MaxGeneration

SameSide(c, a, b) == (a <= c) = (b <= c)

\* the entries of the last sweep's log
LogEntries == {log[i] : i \in 1 .. Len(log)}

Entries(ev) == {e \in LogEntries : e.ev = ev}

C2_AgeThreshold ==
  (/\ last.op = "_shouldWither"
   /\ Tracking(lifeSpan)
   /\ Num(gen[last.node])
   /\ ~IsNode(FirstChild(values[last.node]))) =>
    /\ last.flag = (CircAge(currGen, gen[last.node]) > lifeSpan)
    /\ AgeOf(currGen, gen[last.node]) = CircAge(currGen, gen[last.node])

\* the getter was read on a node with an empty first slot whose stamp is
\* numerically after the clock (the clock wrapped) and whose age equals
\* lifeSpan: not eligible
C2_Witness ==
  /\ last.op = "_shouldWither"
  /\ Tracking(lifeSpan)
  /\ FirstChild(values[last.node]) = NullSlot
  /\ Num(gen[last.node])
  /\ gen[last.node] > currGen
  /\ CircAge(currGen, gen[last.node]) = lifeSpan
  /\ last.flag = FALSE

\* the eligibility rule as the protection clause states it
RECURSIVE RefEligible(_, _, _, _, _)
RefEligible(n, ls, c, g, v) ==
  LET fc == FirstChild(v[n])
  IN  /\ Num(g[n])
      /\ CircAge(c, g[n]) > ls
      /\ ~(IsNode(fc) /\ ~RefEligible(fc, ls, c, g, v))

\* C3: with tracking active, _shouldWither = (age > lifeSpan) and not (the
\* node has a first child whose own _shouldWither is false); and wither()
\* never self-evicts a node whose first child is not eligible.
C3_Protection ==
  [][Tracking(lifeSpan) =>
       /\ last'.op = "_shouldWither" =>
            last'.flag = RefEligible(last'.node, lifeSpan, currGen, gen, values)
       /\ last'.op = "wither" =>
            \A e \in {log'[i] : i \in 1 .. Len(log')} :
              e.ev = "clear" =>
                LET fc == FirstChild(values[e.node])
                IN  ~(IsNode(fc) /\ ~RefEligible(fc, lifeSpan, currGen, gen, values))
    ]_vars

\* a sweep met a node whose age exceeded lifeSpan, whose first child was
\* not eligible, and did not self-evict it
C3_Witness ==
  /\ last.op = "wither"
  /\ Tracking(lifeSpan)
  /\ \E e \in Entries("check") :
       /\ Num(e.own)
       /\ CircAge(currGen, e.own) > lifeSpan
       /\ IsNode(FirstChild(e.vals))
       /\ e.flag = FALSE
       /\ ~\E x \in Entries("clear") : x.node = e.node

\* what the sweep's log says about node n
EnterVals(n) == (CHOOSE e \in Entries("enter") : e.node = n).vals
Cleared(n) == \E e \in Entries("clear") : e.node = n
ReturnedTrue(n) == \E e \in Entries("return") : e.node = n /\ e.flag

RECURSIVE Survivors(_)
Survivors(vals) ==
  IF vals = <<>> THEN <<>>
  ELSE (IF IsNode(Head(vals)) /\ ReturnedTrue(Head(vals)) THEN <<>> ELSE <<Head(vals)>>)
       \o Survivors(Tail(vals))

\* C4: when wither() runs on a node that does not self-evict, the slots
\* left afterwards are those of the children whose wither() returned
\* false and the slots without a wither capability, in their original
\* order, and wither() was called on every child node the node had.
C4_ChildSweep ==
  last.op = "wither" =>
    \A r \in Entries("return") :
      ~Cleared(r.node) =>
        /\ r.vals = Survivors(EnterVals(r.node))
        /\ \A k \in NodeSlots(EnterVals(r.node)) :
             \E e \in Entries("call") : e.node = r.node /\ e.child = k

\* a node with three children, of which the first two withered and the
\* third survived, is left with the third at index 0 and returns false
C4_Witness ==
  /\ last.op = "wither"
  /\ \E r \in Entries("return") :
       /\ ~Cleared(r.node)
       /\ Len(EnterVals(r.node)) = 3
       /\ ReturnedTrue(EnterVals(r.node)[1])
       /\ ReturnedTrue(EnterVals(r.node)[2])
       /\ r.vals = <<EnterVals(r.node)[3]>>
       /\ r.flag = FALSE

\* C5: wither() returns true if and only if the node self-evicted or,
\* after the child sweep, childNum <= 1 and slot 0 is the empty sentinel.
C5_ReturnValue ==
  last.op = "wither" =>
    \A r \in Entries("return") :
      r.flag = (\/ Cleared(r.node)
                \/ (Len(r.vals) <= 1 /\ FirstChild(r.vals) = NullSlot /\ Len(r.vals) = 1))

\* a node that did not self-evict lost its only child to the sweep, was
\* left with the empty sentinel in slot 0 and returned true
C5_Witness ==
  /\ last.op = "wither"
  /\ \E r \in Entries("return") :
       /\ ~Cleared(r.node)
       /\ \E e \in Entries("remove") : e.node = r.node
       /\ r.vals = <<NullSlot>>
       /\ r.flag = TRUE

\* the more recent of two stamps: the one with the smaller circular age
MoreRecent(c, a, b) == IF CircAge(c, a) <= CircAge(c, b) THEN a ELSE b

\* C6: after a successful mergeAfter(other) where both nodes carry stamps,
\* the receiving node's stamp is the more recent of the two input stamps,
\* for every pair of stamps and every clock value.
C6_MergeFreshness ==
  (/\ last.op = "mergeAfter"
   /\ last.flag
   /\ Tracking(lifeSpan)
   /\ IsNode(last.arg)
   /\ Num(last.old)
   /\ Num(gen[last.arg])) =>
    gen[last.node] = MoreRecent(currGen, last.old, gen[last.arg])

\* C7: no call of the core moves a node's stamp backward: while the clock
\* stands still, the circular age of every node of the tree after a step
\* is at most what it was before.
C7_StampMonotonic ==
  [][currGen' = currGen =>
       \A n \in nodes' :
         Num(gen[n]) =>
           /\ Num(gen'[n])
           /\ CircAge(currGen, gen'[n]) <= CircAge(currGen, gen[n])
    ]_vars

\* a successful mergeAfter moved the receiving node's stamp (forward)
C7_Witness ==
  /\ last.op = "mergeAfter"
  /\ last.flag
  /\ Num(last.old)
  /\ gen[last.node] # last.old
  /\ CircAge(currGen, gen[last.node]) < CircAge(currGen, last.old)

\* C8: with neighboringLinks enabled, when wither() evaluates a node's
\* self-eviction check the node's stamp is not older, in circular age,
\* than the stamp of any of its direct children.
C8_SkewRepaired ==
  (last.op = "wither" /\ Tracking(lifeSpan) /\ neighboringLinks) =>
    \A e \in Entries("check") :
      \A k \in e.kids :
        (Num(e.own) /\ Num(k)) => CircAge(currGen, e.own) <= CircAge(currGen, k)

\* C9: with lifeSpan absent or zero, no call changes a node's stamp, the
\* two getters are never true, wither() never calls clear(), and wither()
\* returns true exactly for the structurally empty nodes.
C9_DisabledPolicy ==
  [][~Tracking(lifeSpan) =>
       /\ \A n \in nodes' : gen'[n] = gen[n]
       /\ last'.op \in {"_shouldWither", "_genOlderThan"} => last'.flag = FALSE
       /\ last'.op = "wither" =>
            \A e \in {log'[i] : i \in 1 .. Len(log')} :
              /\ e.ev # "clear"
              /\ e.ev = "check" => e.flag = FALSE
              /\ e.ev = "return" => e.flag = (e.vals = <<NullSlot>>)
    ]_vars

\* with the policy disabled, a sweep met a node with a stamp two or more
\* generations old and left it, and its stamp, in place
C9_Witness ==
  /\ ~Tracking(lifeSpan)
  /\ last.op = "wither"
  /\ \E e \in Entries("return") :
       /\ Num(e.own)
       /\ CircAge(currGen, e.own) >= 2
       /\ e.node \in nodes
       /\ gen[e.node] = e.own
       /\ e.flag = FALSE

\* C10: with tracking active, rejuvenate() sets the node's stamp to exactly
\* tree.currentGeneration, so that the node's age is 0; a node whose stamp
\* already is the current generation keeps it.
C10_Rejuvenation ==
  (last.op = "rejuvenate" /\ Tracking(lifeSpan)) =>
    /\ gen[last.node] = currGen
    /\ CircAge(currGen, gen[last.node]) = 0
    /\ last.old = currGen => gen[last.node] = last.old

\* rejuvenate() was called on a node stamped in an earlier generation
C10_Witness ==
  /\ last.op = "rejuvenate"
  /\ Tracking(lifeSpan)
  /\ Num(last.old)
  /\ last.old # currGen
  /\ gen[last.node] = currGen

\* C11: a traverse() or getUncachedRange() call without props.doNotWither
\* leaves the node's stamp equal to the current generation (tracking
\* active); a call with props.doNotWither leaves the stamp unchanged; in
\* both cases what the host's own method returned is returned as it is.
C11_AccessHooks ==
  [][last'.op \in {"traverse", "getUncachedRange"} =>
       /\ (~last'.flag /\ Tracking(lifeSpan)) => gen'[last'.node] = currGen
       /\ last'.flag => gen'[last'.node] = gen[last'.node]
       /\ \A to \in Nodes, hostResult \in HostResults :
            Hook(last'.op, last'.node, to, last'.flag, hostResult) =>
              last'.ret = hostResult
    ]_vars

\* a hook called with props.doNotWither on a node stamped in an earlier
\* generation returned the host's result and left the stamp alone
C11_Witness ==
  /\ last.op = "traverse"
  /\ last.flag
  /\ Tracking(lifeSpan)
  /\ Num(last.old)
  /\ last.old # currGen
  /\ gen[last.node] = last.old
  /\ last.ret = "result"

\* C12 as stated: for a node without a first child that was rejuvenated k
\* ticks ago (0 <= k < MAX_GENERATION) and not accessed since, wither() on
\* the node evicts it exactly when k > lifeSpan, wrapped clock or not.
C12_EvictionTimingAsStated ==
  [][(last'.op = "wither" /\ Tracking(lifeSpan)) =>
       \A i \in 1 .. Len(log') :
         LET e == log'[i]
         IN  (/\ e.ev = "check"
              /\ elapsed[e.node] # NotTimed
              /\ ~IsNode(FirstChild(e.vals)))
             => (e.flag <=> elapsed[e.node] > lifeSpan)
    ]_vars

\* C12: the same, for a node whose stamp the skew repair at the start of
\* wither() does not replace by a child's (always so when
\* tree.neighboringLinks is off or the node holds no child node).
C12_EvictionTiming ==
  [][(last'.op = "wither" /\ Tracking(lifeSpan)) =>
       \A i \in 1 .. Len(log') :
         LET e == log'[i]
         IN  (/\ e.ev = "check"
              /\ elapsed[e.node] # NotTimed
              /\ ~IsNode(FirstChild(e.vals))
              /\ e.own = gen[e.node])
             => (e.flag <=> elapsed[e.node] > lifeSpan)
    ]_vars

\* a node without a first child was evicted lifeSpan + 1 ticks after its
\* rejuvenate(), the clock having wrapped in between
C12_Witness ==
  /\ last.op = "wither"
  /\ Tracking(lifeSpan)
  /\ \E i \in 1 .. Len(log) :
       /\ log[i].ev = "check"
       /\ log[i].flag
       /\ ~IsNode(FirstChild(log[i].vals))
       /\ elapsed[log[i].node] = lifeSpan + 1
       /\ log[i].own > currGen

C14_ShortCircuit ==
  last.op = "wither" =>
    /\ \A e \in Entries("check") :
         e.flag =>
           /\ Cleared(e.node)
           /\ ReturnedTrue(e.node)
           /\ \A k \in NodeSlots(e.vals) :
                ~\E x \in LogEntries : x.ev = "enter" /\ x.node = k
           /\ ~\E x \in LogEntries : x.ev \in {"call", "remove"} /\ x.node = e.node
    /\ \A x \in LogEntries :
         x.ev \in {"call", "remove"} =>
           \E e \in Entries("check") : e.node = x.node /\ ~e.flag

\* a node holding child nodes evicted itself, and a node that was not
\* eligible had a child swept
C14_Witness ==
  /\ last.op = "wither"
  /\ \E e \in Entries("check") :
       /\ e.flag
       /\ NodeSlots(e.vals) # {}
       /\ e.node # Root
       /\ Cleared(e.node)
  /\ \E x \in Entries("call") : x.node = Root

\* C15: with tree.neighboringLinks on, in a tree whose ancestors are stale
\* only because descendants (at any depth) were rejuvenated over neighbor
\* links, a sweep from the root discards no node whose own age is at most
\* lifeSpan: no such node is self-evicted, and no ancestor of it, however
\* many levels above, is self-evicted.
C15_FreshContentSurvives ==
  [][last'.op = "wither" =>
       \A a \in nodes : \A n \in Subtree(a, values) :
         (Num(gen[n]) /\ CircAge(currGen, gen[n]) <= lifeSpan) =>
           ~\E i \in 1 .. Len(log') : log'[i].ev = "clear" /\ log'[i].node = a
    ]_vars

\* C16: with tree.neighboringLinks off, starting from a freshly built tree
\* and taking clock advances (fewer than MAX_GENERATION ticks between
\* accesses of a node), traversals that reach a node through all of its
\* ancestors without props.doNotWither, and sweeps from the root, in any
\* order: no parent's stamp is older, in circular age, than the stamp of
\* any of its children.
C16_ParentFreshness ==
  \A p \in nodes : \A k \in NodeSlots(values[p]) :
    CircAge(currGen, gen[p]) <= CircAge(currGen, gen[k])

\* after a sweep, across a wrap of the clock, a parent is strictly fresher
\* than one of its children
C16_Witness ==
  /\ last.op = "wither"
  /\ \E p \in nodes : \E k \in NodeSlots(values[p]) :
       /\ gen[k] > currGen
       /\ gen[p] <= currGen
       /\ CircAge(currGen, gen[p]) < CircAge(currGen, gen[k])

\* C17: wither() terminates on every finite tree (remove() detaching the
\* slot and decrementing childNum): every wither() call that was entered
\* has returned, the root's last; and while one node sweeps its children,
\* wither() is invoked exactly once on each child node that was present
\* when the sweep started, and on nothing else.
C17_SweepTermination ==
  last.op = "wither" =>
    /\ Len(log) > 0
    /\ log[Len(log)].ev = "return"
    /\ log[Len(log)].node = Root
    /\ \A e \in Entries("enter") :
         Cardinality({i \in 1 .. Len(log) :
                        log[i].ev = "return" /\ log[i].node = e.node}) = 1
    /\ \A e \in Entries("check") :
         ~e.flag =>
           /\ \A k \in NodeSlots(e.vals) :
                Cardinality({i \in 1 .. Len(log) :
                               /\ log[i].ev = "call"
                               /\ log[i].node = e.node
                               /\ log[i].child = k}) = 1
           /\ Cardinality({i \in 1 .. Len(log) :
                             log[i].ev = "call" /\ log[i].node = e.node})
                = Cardinality(NodeSlots(e.vals))

\* a sweep removed one child of a node and went on to call wither() on the
\* sibling that followed it
C17_Witness ==
  /\ last.op = "wither"
  /\ \E i \in 1 .. Len(log) : \E j \in (i + 1) .. Len(log) :
       /\ log[i].ev = "remove"
       /\ log[j].ev = "call"
       /\ log[j].node = log[i].node
       /\ log[j].child # log[i].child

\* C18: a node constructed while tracking is active is constructed without
\* an error and ends with stamp props._currGen when one is supplied (any
\* value in [0, MAX_GENERATION), 0 included) and with tree._currGen when
\* none is (also when no props object is passed at all); with tracking
\* inactive and no generation supplied the stamp stays unset.
C18_StampSeeding ==
  last.op = "constructor" =>
    /\ Tracking(lifeSpan) =>
         /\ last.ret # "TypeError"
         /\ last.old = (IF last.arg \in Gens THEN last.arg ELSE currGen)
    /\ (~Tracking(lifeSpan) /\ last.arg = Unset) =>
         /\ last.ret # "TypeError"
         /\ last.old = Unset

\* the nodes below n that are reached by following first children
RECURSIVE FirstChildChain(_, _)
FirstChildChain(n, v) ==
  LET fc == FirstChild(v[n])
  IN  IF IsNode(fc) THEN {fc} \cup FirstChildChain(fc, v) ELSE {}

\* C19: whenever wither() self-evicts a node, every node on its first-child
\* chain (first child, first child of the first child, ...) is itself
\* eligible and has age above lifeSpan at that moment; one chain node of
\* age at most lifeSpan keeps every ancestor on the chain from evicting
\* itself.
C19_FirstChildChain ==
  [][last'.op = "wither" =>
       \A i \in 1 .. Len(log') :
         (log'[i].ev = "check" /\ log'[i].flag) =>
           /\ Num(log'[i].own)
           /\ CircAge(currGen, log'[i].own) > lifeSpan
           /\ \A k \in FirstChildChain(log'[i].node, values) :
                /\ Num(gen[k])
                /\ CircAge(currGen, gen[k]) > lifeSpan
                /\ RefEligible(k, lifeSpan, currGen, gen, values)
    ]_vars

\* one sweep evicted a node that had a first child, and kept the root,
\* which was too old, because the root's first child was fresh
C19_Witness ==
  /\ last.op = "wither"
  /\ Tracking(lifeSpan)
  /\ \E e \in Entries("check") :
       /\ e.node # Root
       /\ e.flag
       /\ IsNode(FirstChild(e.vals))
  /\ \E e \in Entries("check") : \E f \in Entries("check") :
       /\ e.node = Root
       /\ ~e.flag
       /\ CircAge(currGen, e.own) > lifeSpan
       /\ f.node = FirstChild(e.vals)
       /\ CircAge(currGen, f.own) <= lifeSpan

\* what a further wither() on the root would do in the present state
SecondSweep ==
  Wither(Root, neighboringLinks, lifeSpan, currGen,
         [gen |-> gen, values |-> values, ret |-> FALSE, log |-> <<>>])

\* C20 as stated: after wither() on the root has returned false, no
\* remaining node has _shouldWither true and no remaining node but the root
\* is structurally empty; so a second wither() on the root in the same
\* generation, with no access in between, removes nothing, clears nothing
\* and changes no stamp.
C20_SweepCompleteAsStated ==
  (last.op = "wither" /\ ~last.flag) =>
    /\ \A n \in nodes : ~ShouldWither(n, lifeSpan, currGen, gen, values)
    /\ \A n \in nodes \ {Root} : ~Collapsed(values[n])
    /\ SecondSweep.values = values
    /\ SecondSweep.gen = gen
    /\ \A i \in 1 .. Len(SecondSweep.log) :
         SecondSweep.log[i].ev \notin {"clear", "remove"}

\* the sweep in `log` removed no child that was its parent's first slot and
\* was removed as structurally empty (not self-evicted)
NoEmptyFirstChildRemoved ==
  \A r \in Entries("remove") :
    ~(/\ ~Cleared(r.child)
      /\ \E c \in Entries("call") :
           c.node = r.node /\ c.child = r.child /\ c.vals[1] = r.child)

\* C20: after wither() on the root has returned false, no remaining node
\* but the root is structurally empty; if the sweep removed no structurally
\* empty first child, no remaining node has _shouldWither true and a second
\* wither() on the root in the same generation, with no access in between,
\* removes nothing and clears nothing; with tree.neighboringLinks off it
\* changes no stamp either.
C20_SweepComplete ==
  (last.op = "wither" /\ ~last.flag) =>
    /\ \A n \in nodes \ {Root} : ~Collapsed(values[n])
    /\ NoEmptyFirstChildRemoved =>
         /\ \A n \in nodes : ~ShouldWither(n, lifeSpan, currGen, gen, values)
         /\ SecondSweep.values = values
         /\ \A i \in 1 .. Len(SecondSweep.log) :
              SecondSweep.log[i].ev \notin {"clear", "remove"}
    /\ ~neighboringLinks => SecondSweep.gen = gen

\* a sweep that removed a child left the root, too old but protected by its
\* first child, in place; a second sweep would change nothing
C20_Witness ==
  /\ last.op = "wither"
  /\ ~last.flag
  /\ Tracking(lifeSpan)
  /\ NoEmptyFirstChildRemoved
  /\ Entries("remove") # {}
  /\ CircAge(currGen, gen[Root]) > lifeSpan
  /\ IsNode(FirstChild(values[Root]))
  /\ SecondSweep.values = values
  /\ SecondSweep.gen = gen

====
